---- MODULE Spec2Model ----
(***************************************************************************)
(* Deployment orchestrator of ICPilot (src/src/deployer.ts).               *)
(*                                                                         *)
(* One deploy run is deployCanister(canisterName, projectPath): toolchain  *)
(* check, staging of ic_project/, startDfxReplica, getExistingCanisterId,  *)
(* then either upgradeCanister or deployToReplica (import preprocessing,   *)
(* moc --check, the nested recovery branches, dfx deploy, id lookup).      *)
(* External programs (dfx, moc, lsof, kill, the code generation service)   *)
(* are the environment: each invocation's outcome is a nondeterministic    *)
(* choice among the outcomes the code distinguishes.                       *)
(***************************************************************************)
EXTENDS Integers, Sequences, FiniteSets, TLC

(* ---------------- bounds of the model ---------------- *)
MaxRuns == 2

(* ---------------- program constants ---------------- *)
maxAttempts == 24
MAX_RETRIES == 3
fixedPort == 4943

(* ---------------- value domains ---------------- *)
Names == {"Echo", "Other"}

NoId == 0

(* No exit code yet (the installer process has not closed).                *)
NoExit == -1

(* File contents, abstracted to what the code's text operations look at:   *)
(* kind - where the text came from; uses - it mentions an identifier of a  *)
(* known base namespace (Nat, Text, ...); imp - it carries                 *)
(* import X "mo:base/X" declarations.                                      *)
NoFile == [kind |-> "absent", uses |-> FALSE, imp |-> FALSE]

SourceArtifacts ==
  { [kind |-> "generated", uses |-> FALSE, imp |-> FALSE],
    [kind |-> "generated", uses |-> TRUE,  imp |-> FALSE],
    [kind |-> "generated", uses |-> TRUE,  imp |-> TRUE] }

minimalCanister == [kind |-> "minimal", uses |-> TRUE, imp |-> FALSE]

(* Text the code generation service puts in canisterCode (the prompt asks  *)
(* for code without imports).                                              *)
RewriteTexts ==
  { [kind |-> "response", uses |-> TRUE, imp |-> FALSE] }

NoConfig == [exists |-> FALSE, canisters |-> {}, bind |-> 0]

(* Output of the dfx start process collected in startOutput.               *)
NoOutput == "none"
StartOutputs == {"", "address in use"}

(* Diagnostics of a failed moc --check, and the outcome of one check.      *)
Diagnostics == {"pkgbase", "syntax"}
CheckOutcomes == {"pass"} \cup Diagnostics

(* What one call of the code generation service yields.                    *)
Responses == {"apierror", "unparsable", "onlycode", "lowercase", "valid"}

TierNames == {"ImportRepair", "ToolchainEnvironmentFix",
              "ArtifactSimplification", "MinimalFallbackArtifact",
              "ExternalRewrite"}

VARIABLES
  run,          \* number of deploy runs started so far
  pc,           \* position of the current run
  name,         \* canisterName of the current run
  fsHealthy,    \* FALSE: filesystem operations may fail
  dfxInstalled, \* the toolchain is found by checkDfxInstalled
  srcFile,      \* {projectPath}/src/{name}.mo, per name
  moFile,       \* ic_project/src/{name}/main.mo, per name
  dfxJson,      \* ic_project/dfx.json
  dfxDir,       \* ic_project/.dfx exists
  registry,     \* identifiers the toolchain holds, per name
  nextId,       \* next identifier the toolchain issues
  replica,      \* "Stopped" | "Starting" | "Running"
  portOwner,    \* "none" | "replica" | "foreign"
  killed,       \* a kill -9 was issued in this run
  attempts,     \* failed liveness probes of the polling loop
  startOutput,  \* what was captured from the dfx start process
  genAttempt,   \* attempt counter of generateCanisterAndModifyCode
  genResult,    \* canisterCode of the accepted response
  faulty,       \* faultyMoContent
  diag,         \* errorMessage of the first failed check ("none" before)
  envFixed,     \* result of fixDfxEnvironment: "none" | "fixed" | "notfixed"
  lastCheck,    \* outcome of the latest moc --check of the run ("none" before)
  existingId,   \* existingCanisterId of the current run
  result,       \* identifier returned by the run
  failedAt,     \* stage whose error ended the run ("none" otherwise)
  errorText,    \* captured output the error message carries
  log,          \* external steps of the current run, in order
  prevName, prevOutcome, prevResult,  \* the previous run, for comparison
  other,        \* locals of a second deployCanister call, suspended at an await
  cmd,          \* locals of the convert command handler
  inst          \* locals of installDfxSdk and of the handler awaiting it

vars == << run, pc, name, fsHealthy, dfxInstalled, srcFile, moFile, dfxJson,
           dfxDir, registry, nextId, replica, portOwner, killed, attempts,
           startOutput, genAttempt, genResult, faulty, diag, envFixed,
           lastCheck, existingId, result, failedAt, errorText, log, prevName,
           prevOutcome, prevResult, other, cmd, inst >>

envVars   == << fsHealthy, dfxInstalled >>
fileVars  == << srcFile, moFile, dfxJson, dfxDir >>
chainVars == << registry, nextId >>
netVars   == << replica, portOwner, killed, attempts, startOutput >>
genVars   == << genAttempt, genResult >>
recVars   == << faulty, diag, envFixed, lastCheck >>
prevVars  == << prevName, prevOutcome, prevResult >>
runVars   == << run, name >>
failVars  == << failedAt, errorText >>
hostVars  == << cmd, inst >>

(* ---------------- helpers ---------------- *)
Count(s, e) == Cardinality({i \in 1..Len(s) : s[i] = e})

IsTier(e) == e \in TierNames

Tiers == SelectSeq(log, IsTier)

IsPrefix(s, t) == Len(s) <= Len(t) /\ \A i \in 1..Len(s) : s[i] = t[i]

Occurs(e) == \E i \in 1..Len(log) : log[i] = e

LastStep == IF log = << >> THEN "none" ELSE log[Len(log)]

(* Outcomes of one filesystem operation.                                   *)
FsOutcomes == IF fsHealthy THEN {TRUE} ELSE {TRUE, FALSE}

(* Variant: every diagnostic is taken for the missing-base signature.       *)
MatchesBaseSignature_Any(d) == TRUE

(* errorMessage.includes('package "base" not defined')                     *)
MatchesBaseSignature(d) == d = "pkgbase"

(* The error propagates to deployCanister's catch; its message carries the *)
(* given captured output.                                                  *)
FailWith(stage, output) ==
  /\ pc' = "Failed"
  /\ failedAt' = stage
  /\ errorText' = output

Fail(stage) == FailWith(stage, NoOutput)

(* ---------------- pure functions of the code ---------------- *)

(* preprocessMotokoCode: a namespace identifier used with no               *)
(* "import <Name>" gets its import statement added; otherwise the code is  *)
(* returned as it is.                                                      *)
preprocessMotokoCode(code) ==
  IF code.uses /\ ~code.imp THEN [code EXCEPT !.imp = TRUE] ELSE code

(* createSimplifiedMotokoCode: every import "mo:base/..." is removed and   *)
(* some calls are rewritten; namespace identifiers may remain.             *)
createSimplifiedMotokoCode(code) ==
  [kind |-> "simplified", uses |-> code.uses, imp |-> FALSE]

(* formatMotokoCode splits and re-indents the text: the result is another  *)
(* text, with the same identifiers and import statements.                  *)
formatMotokoCode(code) == [code EXCEPT !.kind = "rewrite"]

(* validateResponseStructure applied to what extractJsonFromText yields,   *)
(* after the lower-case key correction: all three keys are needed.         *)
validateResponseStructure(resp) == resp \in {"valid", "lowercase"}

(* createDfxConfig: the whole document is built from the one name.         *)
(* Variant: the entry is added to the document that is there.              *)
createDfxConfig_Appends(canisterName) ==
  [exists |-> TRUE,
   canisters |-> dfxJson.canisters \cup {canisterName},
   bind |-> fixedPort]

createDfxConfig(canisterName) ==
  [exists |-> TRUE, canisters |-> {canisterName}, bind |-> fixedPort]

(* Variant: a main.mo that is already staged is kept.                      *)
StagedSource_KeepExisting(canisterName) ==
  IF moFile[canisterName] # NoFile
    THEN moFile[canisterName]
    ELSE srcFile[canisterName]

(* deployCanister, line 219: copyFile(sourceFile, targetFile) overwrites   *)
(* main.mo with the content of {projectPath}/src/{canisterName}.mo.        *)
StagedSource(canisterName) == srcFile[canisterName]

(* dfx canister id <name> run in ic_project: exit code and trimmed stdout. *)
(* The toolchain prints the identifier it holds for the name; for a name   *)
(* it holds none for it exits non-zero, or prints nothing.                 *)
LookupOutputs(canisterName) ==
  IF registry[canisterName] # NoId
    THEN { [exit |-> 0, out |-> registry[canisterName]] }
    ELSE { [exit |-> 1, out |-> NoId], [exit |-> 0, out |-> NoId] }

(* Variant: the lookup never reports an identifier.                        *)
getExistingCanisterId_Forgets(lookup) == NoId

(* Variant: an identifier returned to the caller earlier is used again.    *)
getExistingCanisterId_Cached(lookup) ==
  IF prevResult # NoId THEN prevResult ELSE lookup.out

(* getExistingCanisterId: the trimmed output if the command succeeded and  *)
(* printed something, null in every other case (the error is caught).      *)
getExistingCanisterId(lookup) ==
  IF lookup.exit = 0 /\ lookup.out # NoId THEN lookup.out ELSE NoId

(* Variant: the replica is always started with --clean.                     *)
StartClean_Always == TRUE

(* Variant: the test of existsSync(dfxDir) inverted.                       *)
StartClean_WhenStatePresent == dfxDir

(* startCmd: --clean only when ic_project/.dfx does not exist.             *)
StartClean == ~dfxDir

(* Variant: the branch condition inverted; the upgrade branch dropped.     *)
BranchOnLookup_Inverted(id) == IF id = NoId THEN "Upgrade" ELSE "Preprocess"

BranchOnLookup_AlwaysInstall(id) == "Preprocess"

(* deployCanister, lines 227-234: the branch taken on the lookup result.   *)
BranchOnLookup(id) == IF id # NoId THEN "Upgrade" ELSE "Preprocess"

(* Variant: a failed first check is only logged, dfx deploy follows.        *)
AfterFirstCheck_NoRecovery(out) == "Install"

(* Variant: the environment fix is tried in the first run only; later runs *)
(* take the rewrite whatever the diagnostic.                               *)
AfterFirstCheck_FixOnceOnly(out) ==
  IF out = "pass" THEN "Install"
  ELSE IF out = "pkgbase" /\ run = 1 THEN "EnvFix" ELSE "Rewrite"

(* Variant: the generated code is rewritten whatever the check says.       *)
AfterFirstCheck_AlwaysRewrite(out) == "Rewrite"

(* deployToReplica: where the first moc --check leads.                     *)
AfterFirstCheck(out) ==
  IF out = "pass" THEN "Install"
  ELSE IF MatchesBaseSignature(out) THEN "EnvFix" ELSE "Rewrite"

(* Variant: a failed environment fix is an error of the run.               *)
AfterEnvFix_Throws(fixed) == IF fixed THEN "CheckAfterFix" ELSE "Failed"

(* Variant: no re-check after a successful environment fix.                 *)
AfterEnvFix_NoRecheck(fixed) == "Simplify"

(* deployToReplica: if (fixed) re-check, else simplify.                    *)
AfterEnvFix(fixed) == IF fixed THEN "CheckAfterFix" ELSE "Simplify"

(* Variant: the result of the re-check after the fix is ignored.            *)
AfterFixCheck_IgnoresPass(out) == "Simplify"

(* Variant: after the environment fix the file is deployed whatever the    *)
(* re-check says.                                                          *)
AfterFixCheck_DeploysAnyway(out) == "Install"

(* deployToReplica: the re-check after the environment fix.                *)
AfterFixCheck(out) == IF out = "pass" THEN "Install" ELSE "Simplify"

(* Variant: a failed re-check is rethrown.                                 *)
AfterRecheck_Throws(out) == IF out = "pass" THEN "Install" ELSE "Failed"

(* Variant: the re-check counts as passed whatever the exit code.          *)
AfterRecheck_PassOnAnyExit(out) == "Install"

(* deployToReplica: the re-check of the simplified or rewritten file.      *)
AfterRecheck(out) == IF out = "pass" THEN "Install" ELSE "WriteMinimal"

(* Variant: the minimal canister is re-checked like a rewritten file.       *)
AfterMinimal_Recheck == "CheckRewrite"

(* deployToReplica: after the minimal canister is written comes dfx deploy.*)
AfterMinimal == "Install"

(* The locals of a deployCanister call that has not started.               *)
IdleContext ==
  [ pc |-> "Idle", name |-> "Echo", killed |-> FALSE, attempts |-> 0,
    startOutput |-> NoOutput, genAttempt |-> 0, genResult |-> NoFile,
    faulty |-> NoFile, diag |-> "none", envFixed |-> "none",
    lastCheck |-> "none", existingId |-> NoId, result |-> NoId,
    failedAt |-> "none", errorText |-> NoOutput, log |-> << >> ]

(* The convert command before it is invoked: nothing selected, nothing     *)
(* generated, no file written or edited, no call made.                     *)
IdleCommand ==
  [ pc |-> "Idle", selected |-> {}, validFiles |-> {}, todo |-> {},
    canisterCode |-> NoFile, written |-> FALSE, generations |-> 0,
    deployCalls |-> 0, canisterId |-> NoId, returned |-> FALSE,
    edited |-> {} ]

(* installDfxSdk before it is called.                                      *)
IdleInstall ==
  [ pc |-> "Idle", platform |-> "none", installOutput |-> "",
    spawned |-> "none", chunks |-> {}, code |-> NoExit,
    cacheInstalled |-> FALSE,
    verified |-> FALSE, settled |-> "pending", message |-> "",
    handler |-> "none" ]

(* ---------------- initial state ---------------- *)
Init ==
  /\ run = 0
  /\ pc = "Idle"
  /\ name = "Echo"
  /\ fsHealthy \in BOOLEAN
  /\ dfxInstalled \in BOOLEAN
  /\ srcFile = [n \in Names |-> NoFile]
  /\ moFile = [n \in Names |-> NoFile]
  /\ dfxJson = NoConfig
  /\ dfxDir = FALSE
  /\ registry = [n \in Names |-> NoId]
  /\ nextId = 1
  /\ replica = "Stopped"
  /\ portOwner \in {"none", "foreign"}
  /\ killed = FALSE
  /\ attempts = 0
  /\ startOutput = NoOutput
  /\ genAttempt = 0
  /\ genResult = NoFile
  /\ faulty = NoFile
  /\ diag = "none"
  /\ envFixed = "none"
  /\ lastCheck = "none"
  /\ existingId = NoId
  /\ result = NoId
  /\ failedAt = "none"
  /\ errorText = NoOutput
  /\ log = << >>
  /\ prevName = "none"
  /\ prevOutcome = "none"
  /\ prevResult = NoId
  /\ other = IdleContext
  /\ cmd = IdleCommand
  /\ inst = IdleInstall

(* ---------------- the caller ---------------- *)

(* The convert command writes {projectPath}/src/{name}.mo (or leaves what  *)
(* is there) and calls deployCanister(name, projectPath).                  *)
StartRun ==
  /\ pc = "Idle"
  /\ run < MaxRuns
  /\ \E n \in Names :
       \E a \in SourceArtifacts \cup {srcFile[n]} :
         /\ name' = n
         /\ srcFile' = [srcFile EXCEPT ![n] = a]
  /\ run' = run + 1
  /\ pc' = "CheckDfx"
  /\ UNCHANGED << hostVars, other, envVars, moFile, dfxJson, dfxDir, chainVars, netVars,
                  genVars, recVars, existingId, result, failVars, log,
                  prevVars >>

(* The promise of deployCanister settles: the caller has the outcome, the  *)
(* locals of the run are gone, and the caller may call again.              *)
FinishRun ==
  /\ pc \in {"Done", "Failed"}
  /\ pc' = "Idle"
  /\ prevName' = name
  /\ prevOutcome' = pc
  /\ prevResult' = result
  /\ killed' = FALSE
  /\ attempts' = 0
  /\ startOutput' = NoOutput
  /\ genAttempt' = 0
  /\ genResult' = NoFile
  /\ faulty' = NoFile
  /\ diag' = "none"
  /\ envFixed' = "none"
  /\ lastCheck' = "none"
  /\ existingId' = NoId
  /\ result' = NoId
  /\ failedAt' = "none"
  /\ errorText' = NoOutput
  /\ log' = << >>
  /\ UNCHANGED << hostVars, other, runVars, envVars, fileVars, chainVars, replica, portOwner >>

(* ---------------- deployCanister ---------------- *)

(* How installDfxSdk settles (lines 247-304): it resolves on exit code 0,  *)
(* and rejects on another exit code, when the process cannot be started    *)
(* and on an unsupported platform.                                         *)
InstallerOutcomes == {"resolve", "exit", "start", "platform"}

(* Variant: the error of a missing toolchain carries no text.              *)
ToolchainFailureText_Silent(installAction, installer) == NoOutput

(* The message of the error thrown when dfx is missing: lines 197 and 200, *)
(* and the rejections of installDfxSdk, lines 273, 280 and 299.            *)
ToolchainFailureText(installAction, installer) ==
  IF installAction # "Install DFX"
    THEN "DFX installation was cancelled."
  ELSE IF installer = "exit"
    THEN "DFX installation failed with exit code 1. Please try installing manually."
  ELSE IF installer = "start"
    THEN "Failed to start DFX installation"
  ELSE IF installer = "platform"
    THEN "Unsupported platform. Please install DFX manually."
  ELSE "DFX installation failed. Please install manually from https://sdk.dfinity.org"

(* checkDfxInstalled, the install prompt, installDfxSdk and the re-check.  *)
CheckDfx ==
  /\ pc = "CheckDfx"
  /\ IF dfxInstalled
       THEN /\ pc' = "Stage"
            /\ UNCHANGED << dfxInstalled, failVars >>
       ELSE \E installAction \in {"Install DFX", "Cancel"} :
              \E installer \in InstallerOutcomes :
                \E nowInstalled \in BOOLEAN :
                  IF /\ installAction = "Install DFX"
                     /\ installer = "resolve"
                     /\ nowInstalled
                    THEN /\ dfxInstalled' = TRUE
                         /\ pc' = "Stage"
                         /\ UNCHANGED failVars
                    ELSE /\ FailWith("Toolchain",
                                     ToolchainFailureText(installAction, installer))
                         /\ UNCHANGED dfxInstalled
  /\ UNCHANGED << hostVars, other, runVars, fsHealthy, fileVars, chainVars, netVars, genVars,
                  recVars, existingId, result, log, prevVars >>

(* createDirIfNotExists x3, existsSync(sourceFile), copyFile,              *)
(* createDfxConfig.                                                        *)
Stage ==
  /\ pc = "Stage"
  /\ \E ok \in FsOutcomes :
       IF ok /\ srcFile[name] # NoFile
         THEN /\ moFile' = [moFile EXCEPT ![name] = StagedSource(name)]
              /\ dfxJson' = createDfxConfig(name)
              /\ pc' = "StopPrior"
              /\ log' = Append(log, "Stage")
              /\ UNCHANGED failVars
         ELSE /\ Fail("Stage")
              /\ UNCHANGED << moFile, dfxJson, log >>
  /\ UNCHANGED << hostVars, other, runVars, envVars, srcFile, dfxDir, chainVars, netVars,
                  genVars, recVars, existingId, result, prevVars >>

(* ---------------- startDfxReplica ---------------- *)

(* dfx stop, errors ignored (lines 420-426).                               *)
StopPrior ==
  /\ pc = "StopPrior"
  /\ \E stopped \in BOOLEAN :
       IF stopped /\ replica # "Stopped"
         THEN /\ replica' = "Stopped"
              /\ portOwner' = IF portOwner = "replica" THEN "none" ELSE portOwner
         ELSE UNCHANGED << replica, portOwner >>
  /\ pc' = "PortProbe"
  /\ UNCHANGED << hostVars, other, runVars, envVars, fileVars, chainVars, killed, attempts,
                  startOutput, genVars, recVars, existingId, result, failVars, log,
                  prevVars >>

(* Variant: the probe always reports the port in use.                      *)
isPortFree_Never == FALSE

(* Variant: the probe always reports the port free.                        *)
isPortFree_Always == TRUE

(* isPortFree(fixedPort): the bind succeeds iff nobody holds the port.     *)
isPortFree == portOwner = "none"

(* if (!(await isPortFree(fixedPort))) ... (line 430).                     *)
PortProbe ==
  /\ pc = "PortProbe"
  /\ pc' = IF isPortFree THEN "WriteBind" ELSE "FreePort"
  /\ UNCHANGED << hostVars, other, runVars, envVars, fileVars, chainVars, netVars, genVars,
                  recVars, existingId, result, failVars, log, prevVars >>

(* What lsof -i :4943 -t can give: a pid, nothing, or an error.            *)
LsofOutcomes == {"pid", "empty", "error"}

(* lsof -i :4943 -t, kill -9 <pid>, 2 s delay; any error of the two        *)
(* commands is "could not be freed" (lines 431-442). No probe follows.     *)
(* The parameters are the outcomes the operating system may give: of lsof, *)
(* of kill, and whether the port is free after the delay.                  *)
FreePortWith(Lsofs, Kills, Frees) ==
  /\ pc = "FreePort"
  /\ \E lsof \in Lsofs :
       \E killOk \in Kills :
         \E freed \in Frees :
           IF lsof = "error" \/ (lsof = "pid" /\ ~killOk)
             THEN /\ Fail("EnsureReplica")
                  /\ UNCHANGED << replica, portOwner, killed >>
             ELSE IF lsof = "pid"
               THEN /\ killed' = TRUE
                    /\ portOwner' = IF freed THEN "none" ELSE portOwner
                    /\ replica' = IF freed THEN "Stopped" ELSE replica
                    /\ pc' = "WriteBind"
                    /\ UNCHANGED failVars
               ELSE /\ pc' = "WriteBind"
                    /\ UNCHANGED << replica, portOwner, killed, failVars >>
  /\ UNCHANGED << hostVars, other, runVars, envVars, fileVars, chainVars, attempts,
                  startOutput, genVars, recVars, existingId, result, log,
                  prevVars >>

FreePort == FreePortWith(LsofOutcomes, BOOLEAN, BOOLEAN)

(* dfx.json is read, networks.local.bind set, and written back             *)
(* (lines 445-448).                                                        *)
WriteBind ==
  /\ pc = "WriteBind"
  /\ \E ok \in FsOutcomes :
       IF ok
         THEN /\ dfxJson' = [dfxJson EXCEPT !.bind = fixedPort]
              /\ pc' = "PingFirst"
              /\ UNCHANGED failVars
         ELSE /\ Fail("EnsureReplica")
              /\ UNCHANGED dfxJson
  /\ UNCHANGED << hostVars, other, runVars, envVars, srcFile, moFile, dfxDir, chainVars,
                  netVars, genVars, recVars, existingId, result, log,
                  prevVars >>

(* dfx ping answers only if something listens on the port.                 *)
PingOutcomes == IF portOwner = "none" THEN {FALSE} ELSE {TRUE, FALSE}

(* The first dfx ping (lines 450-457): success returns at once.            *)
PingFirst ==
  /\ pc = "PingFirst"
  /\ \E pong \in PingOutcomes :
       IF pong
         THEN /\ replica' = "Running"
              /\ pc' = "Resolve"
              /\ killed' = FALSE
              /\ log' = Append(log, "EnsureReplica")
         ELSE /\ pc' = "Spawn"
              /\ UNCHANGED << replica, killed, log >>
  /\ UNCHANGED << hostVars, other, runVars, envVars, fileVars, chainVars, portOwner,
                  attempts, startOutput, genVars, recVars, existingId, result,
                  failVars, prevVars >>

(* spawn(dfx start [--clean] --background): .dfx is created; --clean       *)
(* wipes the replica state. The replica binds the port if it is free.      *)
Spawn ==
  /\ pc = "Spawn"
  /\ registry' = IF StartClean THEN [n \in Names |-> NoId] ELSE registry
  /\ dfxDir' = TRUE
  /\ replica' = IF portOwner = "none" THEN "Starting" ELSE replica
  /\ portOwner' = IF portOwner = "none" THEN "replica" ELSE portOwner
  /\ attempts' = 0
  /\ startOutput' \in StartOutputs
  /\ pc' = "Poll"
  /\ UNCHANGED << hostVars, other, runVars, envVars, srcFile, moFile, dfxJson, nextId, killed,
                  genVars, recVars, existingId, result, failVars, log,
                  prevVars >>

(* Variant: the error of the polling loop does not carry the output.       *)
StartFailureText_Dropped == NoOutput

(* Line 494: "... after 120 seconds. Output: ${startOutput}".              *)
StartFailureText == startOutput

(* One iteration of the polling loop (lines 479-494); the 24th failure     *)
(* leaves the loop and throws. On return the locals of startDfxReplica     *)
(* are gone. The parameter is the set of answers dfx ping may give.        *)
PollWith(Pongs) ==
  /\ pc = "Poll"
  /\ attempts < maxAttempts
  /\ \E pong \in Pongs :
       IF pong
         THEN /\ replica' = "Running"
              /\ pc' = "Resolve"
              /\ attempts' = 0
              /\ startOutput' = NoOutput
              /\ killed' = FALSE
              /\ log' = Append(log, "EnsureReplica")
              /\ UNCHANGED failVars
         ELSE /\ attempts' = attempts + 1
              /\ UNCHANGED << replica, killed, startOutput, log >>
              /\ IF attempts + 1 < maxAttempts
                   THEN pc' = "Poll" /\ UNCHANGED failVars
                   ELSE FailWith("EnsureReplica", StartFailureText)
  /\ UNCHANGED << hostVars, other, runVars, envVars, fileVars, chainVars, portOwner,
                  genVars, recVars, existingId, result, prevVars >>

Poll == PollWith(BOOLEAN)

(* ---------------- install or upgrade ---------------- *)

(* const existingCanisterId = await getExistingCanisterId(...) and the     *)
(* branch on it (lines 226-234).                                           *)
Resolve ==
  /\ pc = "Resolve"
  /\ \E lookup \in LookupOutputs(name) :
       /\ existingId' = getExistingCanisterId(lookup)
       /\ pc' = BranchOnLookup(getExistingCanisterId(lookup))
  /\ log' = Append(log, "Lookup")
  /\ UNCHANGED << hostVars, other, runVars, envVars, fileVars, chainVars, netVars, genVars,
                  recVars, result, failVars, prevVars >>

(* upgradeCanister: dfx canister install <name> --mode=upgrade; then       *)
(* return existingCanisterId.                                              *)
Upgrade ==
  /\ pc = "Upgrade"
  /\ \E exit \in {0, 1} :
       IF exit = 0
         THEN /\ result' = existingId
              /\ pc' = "Done"
              /\ UNCHANGED failVars
         ELSE /\ Fail("Upgrade")
              /\ UNCHANGED result
  /\ log' = Append(log, "Upgrade")
  /\ UNCHANGED << hostVars, other, runVars, envVars, fileVars, chainVars, netVars, genVars,
                  recVars, existingId, prevVars >>

(* ---------------- deployToReplica ---------------- *)

(* Variant: the repaired text is also written to the caller's source file. *)
Preprocess_RepairsSource ==
  /\ pc = "Preprocess"
  /\ \E ok \in FsOutcomes :
       /\ moFile' = IF ok
                      THEN [moFile EXCEPT
                              ![name] = preprocessMotokoCode(moFile[name])]
                      ELSE moFile
       /\ srcFile' = IF ok
                       THEN [srcFile EXCEPT
                               ![name] = preprocessMotokoCode(srcFile[name])]
                       ELSE srcFile
  /\ pc' = "Check1"
  /\ log' = Append(log, "ImportRepair")
  /\ UNCHANGED << hostVars, other, runVars, envVars, dfxJson, dfxDir, chainVars,
                  netVars, genVars, recVars, existingId, result, failVars,
                  prevVars >>

(* Lines 541-556: main.mo is read, preprocessMotokoCode applied, and the   *)
(* file written back if the text changed. An error of the read or of the   *)
(* write is caught and logged; the run goes on.                            *)
Preprocess ==
  /\ pc = "Preprocess"
  /\ \E ok \in FsOutcomes :
       moFile' = IF ok
                   THEN [moFile EXCEPT ![name] = preprocessMotokoCode(moFile[name])]
                   ELSE moFile
  /\ pc' = "Check1"
  /\ log' = Append(log, "ImportRepair")
  /\ UNCHANGED << hostVars, other, runVars, envVars, srcFile, dfxJson, dfxDir, chainVars,
                  netVars, genVars, recVars, existingId, result, failVars,
                  prevVars >>

(* Lines 558-572: the first moc --check; on failure errorMessage is kept   *)
(* and the faulty file is read.                                            *)
Check1 ==
  /\ pc = "Check1"
  /\ \E out \in CheckOutcomes :
       /\ lastCheck' = out
       /\ \E ok \in FsOutcomes :
            IF out = "pass"
              THEN /\ pc' = AfterFirstCheck(out)
                   /\ UNCHANGED << faulty, diag, failVars >>
              ELSE /\ diag' = out
                   /\ IF ok
                        THEN /\ faulty' = moFile[name]
                             /\ pc' = AfterFirstCheck(out)
                             /\ UNCHANGED failVars
                        ELSE /\ Fail("Recover")
                             /\ UNCHANGED faulty
  /\ log' = Append(log, "Validate")
  /\ UNCHANGED << hostVars, other, runVars, envVars, fileVars, chainVars, netVars, genVars,
                  envFixed, existingId, result, prevVars >>

(* Variant: the environment fix also replaces main.mo by the minimal       *)
(* canister.                                                               *)
EnvFix_WritesArtifact ==
  /\ pc = "EnvFix"
  /\ \E fixed \in BOOLEAN :
       /\ envFixed' = IF fixed THEN "fixed" ELSE "notfixed"
       /\ pc' = AfterEnvFix(fixed)
  /\ moFile' = [moFile EXCEPT ![name] = minimalCanister]
  /\ log' = Append(log, "ToolchainEnvironmentFix")
  /\ UNCHANGED << hostVars, other, runVars, envVars, srcFile, dfxJson, dfxDir, chainVars,
                  netVars, genVars, faulty, diag, lastCheck, existingId,
                  result, failVars, prevVars >>

(* fixDfxEnvironment (lines 151-167, called at 576): dfx upgrade, dfx      *)
(* cache install, checkDfxBasePackages; every error is caught and gives    *)
(* false. main.mo is not touched.                                          *)
EnvFix ==
  /\ pc = "EnvFix"
  /\ \E fixed \in BOOLEAN :
       /\ envFixed' = IF fixed THEN "fixed" ELSE "notfixed"
       /\ pc' = AfterEnvFix(fixed)
  /\ log' = Append(log, "ToolchainEnvironmentFix")
  /\ UNCHANGED << hostVars, other, runVars, envVars, fileVars, chainVars, netVars, genVars,
                  faulty, diag, lastCheck, existingId, result, failVars,
                  prevVars >>

(* Line 581: moc --check again on the unchanged file.                      *)
CheckAfterFix ==
  /\ pc = "CheckAfterFix"
  /\ \E out \in CheckOutcomes :
       /\ lastCheck' = out
       /\ pc' = AfterFixCheck(out)
  /\ log' = Append(log, "Validate")
  /\ UNCHANGED << hostVars, other, runVars, envVars, fileVars, chainVars, netVars, genVars,
                  faulty, diag, envFixed, existingId, result, failVars,
                  prevVars >>

(* Lines 587-589 and 608-610: the simplified code is written to main.mo.   *)
Simplify ==
  /\ pc = "Simplify"
  /\ \E ok \in FsOutcomes :
       IF ok
         THEN /\ moFile' = [moFile EXCEPT ![name] = createSimplifiedMotokoCode(faulty)]
              /\ pc' = "CheckSimplified"
              /\ UNCHANGED failVars
         ELSE /\ Fail("Recover")
              /\ UNCHANGED moFile
  /\ log' = Append(log, "ArtifactSimplification")
  /\ UNCHANGED << hostVars, other, runVars, envVars, srcFile, dfxJson, dfxDir, chainVars,
                  netVars, genVars, recVars, existingId, result, prevVars >>

(* Lines 591-594 and 612-615: moc --check of the simplified file.          *)
CheckSimplified ==
  /\ pc = "CheckSimplified"
  /\ \E out \in CheckOutcomes :
       /\ lastCheck' = out
       /\ pc' = AfterRecheck(out)
  /\ log' = Append(log, "Validate")
  /\ UNCHANGED << hostVars, other, runVars, envVars, fileVars, chainVars, netVars, genVars,
                  faulty, diag, envFixed, existingId, result, failVars,
                  prevVars >>

(* Lines 596-602, 617-623 and 677-683: the minimal canister is written;    *)
(* dfx deploy follows with no further check.                               *)
WriteMinimal ==
  /\ pc = "WriteMinimal"
  /\ \E ok \in FsOutcomes :
       IF ok
         THEN /\ moFile' = [moFile EXCEPT ![name] = minimalCanister]
              /\ pc' = AfterMinimal
              /\ UNCHANGED failVars
         ELSE /\ Fail("Recover")
              /\ UNCHANGED moFile
  /\ log' = Append(log, "MinimalFallbackArtifact")
  /\ UNCHANGED << hostVars, other, runVars, envVars, srcFile, dfxJson, dfxDir, chainVars,
                  netVars, genVars, recVars, existingId, result, prevVars >>

(* Line 664: generateCanisterAndModifyCode(fallbackPrompt, ...) is called. *)
Rewrite ==
  /\ pc = "Rewrite"
  /\ genAttempt' = 0
  /\ genResult' = NoFile
  /\ pc' = "GenAttempt"
  /\ log' = Append(log, "ExternalRewrite")
  /\ UNCHANGED << hostVars, other, runVars, envVars, fileVars, chainVars, netVars, recVars,
                  existingId, result, failVars, prevVars >>

(* Variant: a failed attempt is always followed by another one.            *)
AfterFailedAttempt_AlwaysRetry(attempt) == "GenAttempt"

(* Variant: the last attempt is compared with > instead of ===.            *)
AfterFailedAttempt_OneMore(attempt) ==
  IF attempt > MAX_RETRIES THEN "Throw" ELSE "GenAttempt"

(* generateCanisterAndModifyCode, lines 1128-1136 and 1154-1158: what a    *)
(* failed attempt does: retry, or rethrow on the last attempt.             *)
AfterFailedAttempt(attempt) ==
  IF attempt = MAX_RETRIES THEN "Throw" ELSE "GenAttempt"

(* One iteration of the retry loop of generateCanisterAndModifyCode        *)
(* (lines 1088-1160): callGroqAPI, extractJsonFromText,                    *)
(* validateResponseStructure. The error thrown on the last attempt is not  *)
(* caught in deployToReplica's recovery branch: it reaches the outer catch.*)
(* The parameter is the set of answers the service may give.               *)
GenAttemptWith(Resps) ==
  /\ pc = "GenAttempt"
  /\ genAttempt < MAX_RETRIES
  /\ genAttempt' = genAttempt + 1
  /\ \E resp \in Resps :
       \E text \in RewriteTexts :
         IF validateResponseStructure(resp)
           THEN /\ genResult' = formatMotokoCode(text)
                /\ pc' = "WriteRewrite"
                /\ UNCHANGED failVars
           ELSE /\ UNCHANGED genResult
                /\ IF AfterFailedAttempt(genAttempt + 1) = "Throw"
                     THEN Fail("Recover")
                     ELSE pc' = "GenAttempt" /\ UNCHANGED failVars
  /\ log' = Append(log, "CodeGen")
  /\ UNCHANGED << hostVars, other, runVars, envVars, fileVars, chainVars, netVars, recVars,
                  existingId, result, prevVars >>

GenAttempt == GenAttemptWith(Responses)

(* Lines 1162-1249 and 664-668: the accepted canisterCode is returned and  *)
(* written to main.mo.                                                     *)
WriteRewrite ==
  /\ pc = "WriteRewrite"
  /\ \E ok \in FsOutcomes :
       IF ok
         THEN /\ moFile' = [moFile EXCEPT ![name] = genResult]
              /\ pc' = "CheckRewrite"
              /\ UNCHANGED failVars
         ELSE /\ Fail("Recover")
              /\ UNCHANGED moFile
  /\ UNCHANGED << hostVars, other, runVars, envVars, srcFile, dfxJson, dfxDir, chainVars,
                  netVars, genVars, recVars, existingId, result, log,
                  prevVars >>

(* Lines 671-674: moc --check of the rewritten file.                       *)
CheckRewrite ==
  /\ pc = "CheckRewrite"
  /\ \E out \in CheckOutcomes :
       /\ lastCheck' = out
       /\ pc' = AfterRecheck(out)
  /\ log' = Append(log, "Validate")
  /\ UNCHANGED << hostVars, other, runVars, envVars, fileVars, chainVars, netVars, genVars,
                  faulty, diag, envFixed, existingId, result, failVars,
                  prevVars >>

(* What dfx deploy --verbose may have written to stdout and to stderr      *)
(* when it closes.                                                         *)
DeployOutputs == {"", "Deploying all canisters."}

DeployErrors == {"", "Failed while trying to deploy canisters."}

(* Variant: the error of a failed dfx deploy carries no output.            *)
DeployFailureText_Dropped(deployOutput, deployError) == NoOutput

(* Line 713: "... Output: ${deployOutput}\nError: ${deployError}".         *)
DeployFailureText(deployOutput, deployError) ==
  "Output: " \o deployOutput \o " Error: " \o deployError

(* Lines 688-714: dfx deploy --verbose; a non-zero exit code (or a spawn   *)
(* error, taken for exit code 1) throws.                                   *)
(* A successful deploy creates the canister of dfx.json if it has no       *)
(* identifier yet, and creates .dfx.                                       *)
Install ==
  /\ pc = "Install"
  /\ \E exit \in {0, 1}, deployOutput \in DeployOutputs,
        deployError \in DeployErrors :
       IF exit = 0
         THEN /\ registry' = IF registry[name] = NoId
                               THEN [registry EXCEPT ![name] = nextId]
                               ELSE registry
              /\ nextId' = IF registry[name] = NoId THEN nextId + 1 ELSE nextId
              /\ dfxDir' = TRUE
              /\ pc' = "IdLookup"
              /\ UNCHANGED failVars
         ELSE /\ FailWith("Install",
                          DeployFailureText(deployOutput, deployError))
              /\ UNCHANGED << registry, nextId, dfxDir >>
  /\ log' = Append(log, "Install")
  /\ UNCHANGED << hostVars, other, runVars, envVars, srcFile, moFile, dfxJson, netVars,
                  genVars, recVars, existingId, result, prevVars >>

(* Variant: the identifier looked up before the install is returned.       *)
InstallReturns_Stale(lookup) == existingId

(* Lines 717-719: canisterId = idOutput.trim() is returned as it is.       *)
InstallReturns(lookup) == lookup.out

(* Lines 716-719: dfx canister id <name>; its trimmed output is returned.  *)
(* A non-zero exit throws. The parameter is the set of results the command *)
(* may give.                                                               *)
IdLookupWith(Lookups) ==
  /\ pc = "IdLookup"
  /\ \E lookup \in Lookups :
       IF lookup.exit = 0
         THEN /\ result' = InstallReturns(lookup)
              /\ pc' = "Done"
              /\ UNCHANGED failVars
         ELSE /\ Fail("ResolveId")
              /\ UNCHANGED result
  /\ log' = Append(log, "Lookup")
  /\ UNCHANGED << hostVars, other, runVars, envVars, fileVars, chainVars, netVars, genVars,
                  recVars, existingId, prevVars >>

IdLookup == IdLookupWith(LookupOutputs(name))

(* ---------------- specification ---------------- *)
Next ==
  \/ StartRun
  \/ FinishRun
  \/ CheckDfx
  \/ Stage
  \/ StopPrior
  \/ PortProbe
  \/ FreePort
  \/ WriteBind
  \/ PingFirst
  \/ Spawn
  \/ Poll
  \/ Resolve
  \/ Upgrade
  \/ Preprocess
  \/ Check1
  \/ EnvFix
  \/ CheckAfterFix
  \/ Simplify
  \/ CheckSimplified
  \/ WriteMinimal
  \/ Rewrite
  \/ GenAttempt
  \/ WriteRewrite
  \/ CheckRewrite
  \/ Install
  \/ IdLookup

Spec == Init /\ [][Next]_vars

(* ---------------- scenario E: the port is held by another process ------ *)

(* The operating system cooperates: lsof names the owner, kill -9 ends it  *)
(* and the port is free after the delay.                                   *)
FreePortE == FreePortWith({"pid"}, {TRUE}, {TRUE})

(* The started replica answers dfx ping within the polling ceiling.        *)
PongsE ==
  IF portOwner = "replica" /\ attempts + 1 = maxAttempts
    THEN {TRUE} ELSE BOOLEAN

PollE == PollWith(PongsE)

InitE ==
  /\ Init
  /\ fsHealthy
  /\ portOwner = "foreign"

(* deployCanister up to the return of startDfxReplica.                     *)
NextE ==
  \/ StartRun
  \/ CheckDfx
  \/ Stage
  \/ StopPrior
  \/ PortProbe
  \/ FreePortE
  \/ WriteBind
  \/ PingFirst
  \/ Spawn
  \/ PollE

(* deployCanister is one sequential async function: each awaited step      *)
(* completes and the next one is taken.                                    *)
SpecE == InitE /\ [][NextE]_vars /\ WF_vars(NextE)

(* ---------------- one run, to its end ---------------- *)

(* A project root in which one deployCanister("Echo") has succeeded on a   *)
(* plain artifact: the staged files, .dfx, the identifier and the running  *)
(* replica are there.                                                      *)
AfterFirstDeploy ==
  /\ run = 1
  /\ pc = "Idle"
  /\ name = "Echo"
  /\ fsHealthy \in BOOLEAN
  /\ dfxInstalled = TRUE
  /\ srcFile = [n \in Names |->
                  IF n = "Echo"
                    THEN [kind |-> "generated", uses |-> FALSE, imp |-> FALSE]
                    ELSE NoFile]
  /\ moFile = srcFile
  /\ dfxJson = createDfxConfig("Echo")
  /\ dfxDir = TRUE
  /\ registry = [n \in Names |-> IF n = "Echo" THEN 1 ELSE NoId]
  /\ nextId = 2
  /\ replica = "Running"
  /\ portOwner = "replica"
  /\ killed = FALSE
  /\ attempts = 0
  /\ startOutput = NoOutput
  /\ genAttempt = 0
  /\ genResult = NoFile
  /\ faulty = NoFile
  /\ diag = "none"
  /\ envFixed = "none"
  /\ lastCheck = "none"
  /\ existingId = NoId
  /\ result = NoId
  /\ failedAt = "none"
  /\ errorText = NoOutput
  /\ log = << >>
  /\ prevName = "Echo"
  /\ prevOutcome = "Done"
  /\ prevResult = 1
  /\ other = IdleContext
  /\ cmd = IdleCommand
  /\ inst = IdleInstall

InitRun == Init \/ AfterFirstDeploy

(* One call of deployCanister, from the call to the settling of its        *)
(* promise.                                                                *)
NextRun ==
  \/ StartRun
  \/ CheckDfx
  \/ Stage
  \/ StopPrior
  \/ PortProbe
  \/ FreePort
  \/ WriteBind
  \/ PingFirst
  \/ Spawn
  \/ Poll
  \/ Resolve
  \/ Upgrade
  \/ Preprocess
  \/ Check1
  \/ EnvFix
  \/ CheckAfterFix
  \/ Simplify
  \/ CheckSimplified
  \/ WriteMinimal
  \/ Rewrite
  \/ GenAttempt
  \/ WriteRewrite
  \/ CheckRewrite
  \/ Install
  \/ IdLookup

(* Every awaited external invocation and every call of the code generation *)
(* service terminates: the step that is enabled is taken.                  *)
SpecRun == InitRun /\ [][NextRun]_vars /\ WF_vars(NextRun)

(* ---------------- two calls in one project root ---------------- *)

(* The convert command can be invoked again while an earlier invocation    *)
(* waits at an await: the handler holds no lock and no in-progress flag.   *)
(* The locals of the two deployCanister calls are swapped: the call that   *)
(* ran is suspended, the other one goes on. Of all awaits, the switch is   *)
(* taken at the call itself, after the registry lookup and at the return.  *)
SwitchPoints == {"Idle", "Preprocess", "Done"}

Switch ==
  /\ pc \in SwitchPoints
  /\ other.pc \in SwitchPoints
  /\ pc # other.pc
  /\ other' = [ pc |-> pc, name |-> name, killed |-> killed,
                attempts |-> attempts, startOutput |-> startOutput,
                genAttempt |-> genAttempt, genResult |-> genResult,
                faulty |-> faulty, diag |-> diag, envFixed |-> envFixed,
                lastCheck |-> lastCheck, existingId |-> existingId,
                result |-> result, failedAt |-> failedAt,
                errorText |-> errorText, log |-> log ]
  /\ pc' = other.pc
  /\ name' = other.name
  /\ killed' = other.killed
  /\ attempts' = other.attempts
  /\ startOutput' = other.startOutput
  /\ genAttempt' = other.genAttempt
  /\ genResult' = other.genResult
  /\ faulty' = other.faulty
  /\ diag' = other.diag
  /\ envFixed' = other.envFixed
  /\ lastCheck' = other.lastCheck
  /\ existingId' = other.existingId
  /\ result' = other.result
  /\ failedAt' = other.failedAt
  /\ errorText' = other.errorText
  /\ log' = other.log
  /\ UNCHANGED << hostVars, run, envVars, fileVars, chainVars, replica,
                  portOwner, prevVars >>

InitC ==
  /\ Init
  /\ fsHealthy
  /\ dfxInstalled
  /\ portOwner = "none"

NextC == Next \/ Switch

SpecC == InitC /\ [][NextC]_vars

(* ---------------- a lookup that prints nothing ---------------- *)

(* dfx canister id may also exit with code 0 and print nothing (or white   *)
(* space only) for a name that has an identifier.                          *)
LookupOutputsQuiet(canisterName) ==
  LookupOutputs(canisterName) \cup { [exit |-> 0, out |-> NoId] }

IdLookupQuiet == IdLookupWith(LookupOutputsQuiet(name))

(* One call of deployCanister with that lookup.                            *)
NextQuiet ==
  \/ StartRun
  \/ CheckDfx
  \/ Stage
  \/ StopPrior
  \/ PortProbe
  \/ FreePort
  \/ WriteBind
  \/ PingFirst
  \/ Spawn
  \/ Poll
  \/ Resolve
  \/ Upgrade
  \/ Preprocess
  \/ Check1
  \/ EnvFix
  \/ CheckAfterFix
  \/ Simplify
  \/ CheckSimplified
  \/ WriteMinimal
  \/ Rewrite
  \/ GenAttempt
  \/ WriteRewrite
  \/ CheckRewrite
  \/ Install
  \/ IdLookupQuiet

SpecQuiet == InitRun /\ [][NextQuiet]_vars

(* ---------------- a service that follows the rewrite prompt ------------ *)

(* The rewrite prompt (lines 629-661) asks for a JSON object with the one  *)
(* key canisterCode; the service answers with exactly that.                *)
GenAttemptOnlyCode == GenAttemptWith({"onlycode"})

(* One call of deployCanister with that service: no answer is accepted, so *)
(* the write and the re-check of a rewritten file have no step here.       *)
NextOnlyCode ==
  \/ StartRun
  \/ CheckDfx
  \/ Stage
  \/ StopPrior
  \/ PortProbe
  \/ FreePort
  \/ WriteBind
  \/ PingFirst
  \/ Spawn
  \/ Poll
  \/ Resolve
  \/ Upgrade
  \/ Preprocess
  \/ Check1
  \/ EnvFix
  \/ CheckAfterFix
  \/ Simplify
  \/ CheckSimplified
  \/ WriteMinimal
  \/ Rewrite
  \/ GenAttemptOnlyCode
  \/ Install
  \/ IdLookup

SpecOnlyCode == InitRun /\ [][NextOnlyCode]_vars

(* ---------------- two runs, one after the other ---------------- *)

(* The promise of the first call settles as in FinishRun, and the caller   *)
(* keeps what that run saw and did (its first diagnostic, the outcome of   *)
(* the environment fix, of the last check and of the code generation, the  *)
(* steps it logged and how it ended) next to the second call.              *)
SettleAndKeep ==
  /\ pc \in {"Done", "Failed"}
  /\ other.pc = "Idle"
  /\ other' = [IdleContext EXCEPT !.pc = pc, !.diag = diag,
                                  !.envFixed = envFixed,
                                  !.lastCheck = lastCheck,
                                  !.genAttempt = genAttempt,
                                  !.failedAt = failedAt, !.log = log]
  /\ pc' = "Idle"
  /\ prevName' = name
  /\ prevOutcome' = pc
  /\ prevResult' = result
  /\ killed' = FALSE
  /\ attempts' = 0
  /\ startOutput' = NoOutput
  /\ genAttempt' = 0
  /\ genResult' = NoFile
  /\ faulty' = NoFile
  /\ diag' = "none"
  /\ envFixed' = "none"
  /\ lastCheck' = "none"
  /\ existingId' = NoId
  /\ result' = NoId
  /\ failedAt' = "none"
  /\ errorText' = NoOutput
  /\ log' = << >>
  /\ UNCHANGED << hostVars, runVars, envVars, fileVars, chainVars, replica,
                  portOwner >>

InitPair ==
  /\ Init
  /\ dfxInstalled
  /\ portOwner = "none"

NextPair == NextRun \/ SettleAndKeep

SpecPair == InitPair /\ [][NextPair]_vars

(* ---------------- the convert command ---------------- *)

(* The handler deploys under one fixed canister name (extension.ts 226);   *)
(* the model takes one of its names for it.                                *)
CANISTER_NAME == "Echo"

(* A selected file, by what analyzeCode looks at: its path, whether        *)
(* esprima.parseScript accepts the text, and whether the text has a        *)
(* function declaration.                                                   *)
ClientPaths == {"a.js", "b.js"}

SelectedFiles ==
  [path : ClientPaths, parses : BOOLEAN, declares : BOOLEAN]

(* What the user selects: nothing (the prompt is cancelled), the current   *)
(* editor's file, or several files; one text per path.                     *)
Selections ==
  { s \in SUBSET SelectedFiles :
      \A f \in s : \A g \in s : f.path = g.path => f = g }

(* analyzeCode: FunctionDeclaration nodes of the parsed script; a text     *)
(* that does not parse has no functions (the error is caught).             *)
analyzeCode(file) ==
  [hasFunctions |-> file.parses /\ file.declares]

(* The command is invoked; the files are chosen and analysed               *)
(* (lines 333-387). With no valid file the handler returns.                *)
Invoke ==
  /\ cmd.pc = "Idle"
  /\ pc = "Idle"
  /\ \E s \in Selections :
       LET valid == { f \in s : analyzeCode(f).hasFunctions }
       IN  cmd' = [cmd EXCEPT !.selected = s,
                              !.validFiles = valid,
                              !.pc = IF valid = {} THEN "Returned"
                                                   ELSE "Generate"]
  /\ UNCHANGED << inst, other, runVars, pc, envVars, fileVars, chainVars,
                  netVars, genVars, recVars, existingId, result, failVars,
                  log, prevVars >>

(* The consolidated canister is generated (lines 389-397): the call of     *)
(* generateCanisterAndModifyCode throws or returns the canister code.      *)
Generate ==
  /\ cmd.pc = "Generate"
  /\ \E throws \in BOOLEAN :
       \E code \in SourceArtifacts :
         cmd' = [cmd EXCEPT !.generations = @ + 1,
                            !.canisterCode = IF throws THEN @ ELSE code,
                            !.pc = IF throws THEN "Error" ELSE "Write"]
  /\ UNCHANGED << inst, other, runVars, pc, envVars, fileVars, chainVars,
                  netVars, genVars, recVars, existingId, result, failVars,
                  log, prevVars >>

(* mkdir src and writeFile src/{CANISTER_NAME}.mo (lines 399-402).         *)
WriteCanister ==
  /\ cmd.pc = "Write"
  /\ \E ok \in FsOutcomes :
       IF ok
         THEN /\ srcFile' = [srcFile EXCEPT ![CANISTER_NAME] = cmd.canisterCode]
              /\ cmd' = [cmd EXCEPT !.written = TRUE, !.pc = "Deploy"]
         ELSE /\ cmd' = [cmd EXCEPT !.pc = "Error"]
              /\ UNCHANGED srcFile
  /\ UNCHANGED << inst, other, runVars, pc, envVars, moFile, dfxJson, dfxDir,
                  chainVars, netVars, genVars, recVars, existingId, result,
                  failVars, log, prevVars >>

(* deployCanister(fixedCanisterName, workspace root) is called (line 405). *)
CallDeploy ==
  /\ cmd.pc = "Deploy"
  /\ pc = "Idle"
  /\ cmd' = [cmd EXCEPT !.deployCalls = @ + 1, !.pc = "Awaiting"]
  /\ name' = CANISTER_NAME
  /\ run' = run + 1
  /\ pc' = "CheckDfx"
  /\ UNCHANGED << inst, other, envVars, fileVars, chainVars, netVars, genVars,
                  recVars, existingId, result, failVars, log, prevVars >>

(* The promise of deployCanister resolves: canisterId is what it returned  *)
(* and the loop over the valid files starts (lines 405-409).               *)
DeployResolves ==
  /\ cmd.pc = "Awaiting"
  /\ pc = "Done"
  /\ cmd' = [cmd EXCEPT !.canisterId = result, !.returned = TRUE,
                        !.todo = cmd.validFiles, !.pc = "Update"]
  /\ UNCHANGED << inst, other, runVars, pc, envVars, fileVars, chainVars,
                  netVars, genVars, recVars, existingId, result, failVars,
                  log, prevVars >>

(* The promise rejects: the catch shows the message (lines 439-441).       *)
DeployRejects ==
  /\ cmd.pc = "Awaiting"
  /\ pc = "Failed"
  /\ cmd' = [cmd EXCEPT !.pc = "Error"]
  /\ UNCHANGED << inst, other, runVars, pc, envVars, fileVars, chainVars,
                  netVars, genVars, recVars, existingId, result, failVars,
                  log, prevVars >>

(* One round of the loop over validFiles (lines 410-433): the client code  *)
(* of the file is generated with canisterId, and the document, when it is  *)
(* found or can be opened, is replaced.                                    *)
UpdateClient ==
  /\ cmd.pc = "Update"
  /\ \E f \in cmd.todo :
       \E g \in {"throws", "returns"} :
         \E document \in BOOLEAN :
           cmd' = IF g = "throws"
                    THEN [cmd EXCEPT !.generations = @ + 1, !.pc = "Error"]
                    ELSE [cmd EXCEPT !.generations = @ + 1,
                                     !.todo = @ \ {f},
                                     !.edited = IF document
                                                  THEN @ \cup {f.path}
                                                  ELSE @]
  /\ UNCHANGED << inst, other, runVars, pc, envVars, fileVars, chainVars,
                  netVars, genVars, recVars, existingId, result, failVars,
                  log, prevVars >>

(* The loop is over: 'Conversion complete!' (lines 435-438).               *)
Complete ==
  /\ cmd.pc = "Update"
  /\ cmd.todo = {}
  /\ cmd' = [cmd EXCEPT !.pc = "Done"]
  /\ UNCHANGED << inst, other, runVars, pc, envVars, fileVars, chainVars,
                  netVars, genVars, recVars, existingId, result, failVars,
                  log, prevVars >>

(* One run of the command, with the deployCanister it calls; the lookup    *)
(* of the identifier may print nothing.                                    *)
NextConvert ==
  \/ Invoke
  \/ Generate
  \/ WriteCanister
  \/ CallDeploy
  \/ CheckDfx
  \/ Stage
  \/ StopPrior
  \/ PortProbe
  \/ FreePort
  \/ WriteBind
  \/ PingFirst
  \/ Spawn
  \/ Poll
  \/ Resolve
  \/ Upgrade
  \/ Preprocess
  \/ Check1
  \/ EnvFix
  \/ CheckAfterFix
  \/ Simplify
  \/ CheckSimplified
  \/ WriteMinimal
  \/ Rewrite
  \/ GenAttempt
  \/ WriteRewrite
  \/ CheckRewrite
  \/ Install
  \/ IdLookupQuiet
  \/ DeployResolves
  \/ DeployRejects
  \/ UpdateClient
  \/ Complete

SpecConvert == InitRun /\ [][NextConvert]_vars

(* ---------------- installDfxSdk of dfx-installer.ts ---------------- *)

(* os.platform() values: three with an install command, one without.       *)
Platforms == {"darwin", "linux", "win32", "freebsd"}
SupportedPlatforms == {"darwin", "linux", "win32"}

(* What the installer process writes to stdout and stderr, in chunks.      *)
InstallerChunks == {"info: downloading dfx. ", "error: download failed. "}

(* Exit codes the close event delivers.                                    *)
ExitCodes == {0, 1}

(* The messages of the three rejections (lines 40, 59, 109).               *)
UnsupportedPlatformText(platform) ==
  "Unsupported platform: " \o platform \o ". Please install DFX manually."

SpawnErrorText(err) == "Failed to start DFX installation: " \o err

InstallFailureText(code, installOutput) ==
  "DFX installation failed with exit code " \o ToString(code)
    \o ". Please try installing manually.\n\nOutput: " \o installOutput

(* resolve and reject of the promise: the first call settles it, later     *)
(* calls have no effect.                                                   *)
Settle(i, outcome, message) ==
  IF i.settled = "pending"
    THEN [i EXCEPT !.settled = outcome, !.message = message]
    ELSE i

(* Variant: when no version check succeeds the promise is rejected.        *)
AfterVerification_RejectsUnverified(versionOk, dfxPath, fullPathOk) ==
  IF versionOk \/ (dfxPath /\ fullPathOk) THEN "resolved" ELSE "rejected"

(* How the close handler ends after exit code 0 (lines 84-107): dfx        *)
(* --version worked, or it worked with the full path, or it did not, or no *)
(* dfx was found: resolve() in each branch.                                *)
AfterVerification(versionOk, dfxPath, fullPathOk) ==
  IF versionOk THEN "resolved"
  ELSE IF dfxPath
         THEN (IF fullPathOk THEN "resolved" ELSE "resolved")
         ELSE "resolved"

(* installDfxSdk is called by the convert command (extension.ts 292): the  *)
(* platform decides the install command; an unsupported one rejects        *)
(* (lines 15-42). On linux apt-get is run first, its failure is caught.    *)
CallInstall ==
  /\ inst.pc = "Idle"
  /\ ~dfxInstalled
  /\ \E p \in Platforms :
       inst' = IF p \in SupportedPlatforms
                 THEN [inst EXCEPT !.platform = p, !.pc = "Spawn"]
                 ELSE Settle([inst EXCEPT !.platform = p, !.pc = "Returned"],
                             "rejected", UnsupportedPlatformText(p))
  /\ UNCHANGED << cmd, other, runVars, pc, envVars, fileVars, chainVars,
                  netVars, genVars, recVars, existingId, result, failVars,
                  log, prevVars >>

(* spawn(installCmd, installArgs) (line 45): it throws (caught at line     *)
(* 112, reject(error)), or returns a process that runs, or returns one     *)
(* that could not be started.                                              *)
SpawnInstaller ==
  /\ inst.pc = "Spawn"
  /\ \E o \in {"throws", "runs", "fails"} :
       inst' = CASE o = "throws" ->
                      Settle([inst EXCEPT !.spawned = o, !.pc = "Returned"],
                             "rejected", "spawn threw")
                 [] o = "runs"   ->
                      [inst EXCEPT !.spawned = o, !.pc = "Running"]
                 [] o = "fails"  ->
                      [inst EXCEPT !.spawned = o, !.pc = "NotStarted"]
  /\ UNCHANGED << cmd, other, runVars, pc, envVars, fileVars, chainVars,
                  netVars, genVars, recVars, existingId, result, failVars,
                  log, prevVars >>

(* A data event of stdout or stderr (lines 48-56): the chunk is appended.  *)
InstallerData ==
  /\ inst.pc = "Running"
  /\ \E c \in InstallerChunks \ inst.chunks :
       inst' = [inst EXCEPT !.installOutput = @ \o c,
                            !.chunks = @ \cup {c}]
  /\ UNCHANGED << cmd, other, runVars, pc, envVars, fileVars, chainVars,
                  netVars, genVars, recVars, existingId, result, failVars,
                  log, prevVars >>

(* The error event (lines 58-60): the process could not be started.        *)
InstallerError ==
  /\ inst.pc = "NotStarted"
  /\ inst' = Settle([inst EXCEPT !.pc = "Errored"],
                    "rejected", SpawnErrorText("spawn sh ENOENT"))
  /\ UNCHANGED << cmd, other, runVars, pc, envVars, fileVars, chainVars,
                  netVars, genVars, recVars, existingId, result, failVars,
                  log, prevVars >>

(* The close event (lines 62-110) with a non-zero code rejects; with code  *)
(* 0 the environment is updated and the cache install is tried, with the   *)
(* full path when the first try fails; its errors are caught. A process    *)
(* that could not be started closes with a non-zero code.                  *)
InstallerClose ==
  /\ inst.pc \in {"Running", "Errored"}
  /\ \E code \in IF inst.pc = "Errored" THEN ExitCodes \ {0} ELSE ExitCodes :
       IF code = 0
         THEN \E cache \in BOOLEAN, dfxPath \in BOOLEAN, second \in BOOLEAN :
                inst' = [inst EXCEPT !.code = code,
                                     !.cacheInstalled =
                                        cache \/ (dfxPath /\ second),
                                     !.pc = "Verify"]
         ELSE inst' = Settle([inst EXCEPT !.code = code, !.pc = "Returned"],
                             "rejected",
                             InstallFailureText(code, inst.installOutput))
  /\ UNCHANGED << cmd, other, runVars, pc, envVars, fileVars, chainVars,
                  netVars, genVars, recVars, existingId, result, failVars,
                  log, prevVars >>

(* The rest of the close handler (lines 84-107): dfx --version, then the   *)
(* same with the full path.                                                *)
VerifyInstall ==
  /\ inst.pc = "Verify"
  /\ \E versionOk \in BOOLEAN, dfxPath \in BOOLEAN, fullPathOk \in BOOLEAN :
       inst' = Settle([inst EXCEPT !.verified =
                                      versionOk \/ (dfxPath /\ fullPathOk),
                                   !.pc = "Returned"],
                      AfterVerification(versionOk, dfxPath, fullPathOk), "")
  /\ UNCHANGED << cmd, other, runVars, pc, envVars, fileVars, chainVars,
                  netVars, genVars, recVars, existingId, result, failVars,
                  log, prevVars >>

(* The handler awaiting installDfxSdk (extension.ts 282-316): a rejection  *)
(* is shown and the command returns; after a resolution                    *)
(* verifyDfxInstallation is asked, and when it fails the user decides.     *)
AfterInstall ==
  /\ inst.settled # "pending"
  /\ inst.handler = "none"
  /\ \E installed \in BOOLEAN, continueAnyway \in BOOLEAN :
       inst' = [inst EXCEPT !.handler =
                  IF inst.settled = "rejected" THEN "returned"
                  ELSE IF installed \/ continueAnyway THEN "continues"
                  ELSE "returned"]
  /\ UNCHANGED << cmd, other, runVars, pc, envVars, fileVars, chainVars,
                  netVars, genVars, recVars, existingId, result, failVars,
                  log, prevVars >>

(* One call of installDfxSdk, on a machine without the toolchain.          *)
InitInstall ==
  /\ Init
  /\ ~dfxInstalled

NextInstall ==
  \/ CallInstall
  \/ SpawnInstaller
  \/ InstallerData
  \/ InstallerError
  \/ InstallerClose
  \/ VerifyInstall
  \/ AfterInstall

SpecInstall == InitInstall /\ [][NextInstall]_vars

(* ---------------- type invariant ---------------- *)
TypeOK ==
  /\ run \in 0..MaxRuns
  /\ name \in Names
  /\ attempts \in 0..maxAttempts
  /\ genAttempt \in 0..MAX_RETRIES
  /\ diag \in {"none"} \cup Diagnostics
  /\ replica \in {"Stopped", "Starting", "Running"}
  /\ portOwner \in {"none", "replica", "foreign"}

(* ======================================================================= *)
(* Claims                                                                  *)
(* ======================================================================= *)

(* C1: with a healthy filesystem, once the first validation has failed the *)
(* recovery steps of deployToReplica never end the run in Failed: no run   *)
(* fails in the recovery stage.                                            *)
C1_RecoveryNeverFails ==
  fsHealthy => ~(pc = "Failed" /\ failedAt = "Recover")

(* C2: when the diagnostic does not match the missing-support-library      *)
(* signature and every response of the code generation service was         *)
(* rejected, the run is not failed by that: it goes on to write the        *)
(* minimal canister, install it and return an identifier.                  *)
C2_FailedRewriteFallsBack ==
  ( /\ fsHealthy
    /\ diag \in Diagnostics
    /\ diag # "pkgbase"
    /\ genAttempt = MAX_RETRIES
    /\ genResult = NoFile )
  => /\ failedAt # "Recover"
     /\ pc \in {"Install", "IdLookup", "Done"} => moFile[name] = minimalCanister
     /\ pc = "Done" => result # NoId

C4_NoTierTwiceNoneAfterPass ==
  [][ /\ \A t \in TierNames : Count(Tiers', t) <= 1
      /\ lastCheck = "pass" => (Tiers' = Tiers \/ log' = << >>) ]_vars

C4_Witness ==
  pc = "IdLookup" /\ lastCheck = "pass" /\ Len(Tiers) >= 3

(* C5: the tiers attempted are fixed by the diagnostic of the first failed *)
(* check: with the missing-support-library signature they are a prefix of  *)
(* ImportRepair, ToolchainEnvironmentFix, ArtifactSimplification,          *)
(* MinimalFallbackArtifact (never ExternalRewrite); with any other         *)
(* diagnostic a prefix of ImportRepair, ExternalRewrite,                   *)
(* MinimalFallbackArtifact (never tiers 2 and 3); the minimal canister     *)
(* comes only after a failed re-check.                                     *)
C5_TiersFixedByDiagnostic ==
  /\ (Occurs("ToolchainEnvironmentFix") \/ Occurs("ArtifactSimplification"))
       => diag = "pkgbase" /\ ~Occurs("ExternalRewrite")
  /\ diag = "none" => IsPrefix(Tiers, << "ImportRepair" >>)
  /\ (diag \in Diagnostics /\ diag = "pkgbase") =>
       IsPrefix(Tiers, << "ImportRepair", "ToolchainEnvironmentFix",
                          "ArtifactSimplification",
                          "MinimalFallbackArtifact" >>)
  /\ (diag \in Diagnostics /\ diag # "pkgbase") =>
       IsPrefix(Tiers, << "ImportRepair", "ExternalRewrite",
                          "MinimalFallbackArtifact" >>)
  /\ Occurs("MinimalFallbackArtifact") => lastCheck \in Diagnostics
  /\ pc \in {"EnvFix", "Rewrite"} => (pc = "EnvFix" <=> diag = "pkgbase")

C5_Witness ==
  /\ pc = "Install"
  /\ diag # "pkgbase"
  /\ Tiers = << "ImportRepair", "ExternalRewrite", "MinimalFallbackArtifact" >>

C7_AtMostFiveTiersMinimalLast ==
  /\ Len(Tiers) <= 5
  /\ \A i \in 1..Len(Tiers) :
       Tiers[i] = "MinimalFallbackArtifact" => i = Len(Tiers)

C7_Witness ==
  pc = "Done" /\ Len(Tiers) = 4 /\ Tiers[4] = "MinimalFallbackArtifact"

C9_SecondRunUpgrades ==
  (pc # "Idle" /\ prevOutcome = "Done" /\ prevName = name) =>
    /\ ~Occurs("Install")
    /\ pc \notin {"Preprocess", "Check1", "Install", "IdLookup"}
    /\ Occurs("Lookup") => existingId = prevResult /\ existingId # NoId
    /\ pc = "Done" => result = prevResult /\ Count(log, "Upgrade") = 1

C9_Witness ==
  /\ pc = "Done"
  /\ prevOutcome = "Done"
  /\ prevName = name
  /\ Count(log, "Upgrade") = 1
  /\ result = prevResult

(* C10: a run makes at most one of the Install and Upgrade invocations:    *)
(* the Upgrade invocation follows the lookup exactly when the lookup       *)
(* returned an identifier, and the Install branch is taken exactly when it *)
(* returned none.                                                          *)
C10_InstallXorUpgrade ==
  /\ Count(log, "Install") + Count(log, "Upgrade") <= 1
  /\ Occurs("Upgrade") => existingId # NoId
  /\ Occurs("Install") => existingId = NoId
  /\ (Occurs("Lookup") /\ existingId # NoId) =>
       (pc = "Upgrade" \/ Occurs("Upgrade"))
  /\ (Occurs("Lookup") /\ existingId = NoId) =>
       /\ pc # "Upgrade"
       /\ pc = "Done" => Count(log, "Install") = 1

C10_Witness ==
  pc = "Done" /\ Occurs("Upgrade") /\ existingId # NoId

C13_ReturnedIdentifier ==
  pc = "Done" =>
    IF Occurs("Upgrade")
      THEN /\ result = existingId
           /\ result # NoId
           /\ Count(log, "Lookup") = 1
           /\ LastStep = "Upgrade"
      ELSE /\ result = registry[name]
           /\ Count(log, "Lookup") = 2
           /\ LastStep = "Lookup"
           /\ log[Len(log) - 1] = "Install"

C13_Witness ==
  pc = "Done" /\ ~Occurs("Upgrade") /\ result # NoId /\ result # prevResult
     /\ prevResult # NoId

(* C14: the registry lookup returns none in the first run of a project     *)
(* root, where nothing was deployed yet; before any Install of the run it  *)
(* returns what the toolchain holds for the name; after a successful run   *)
(* for a name the next run for that name gets the identifier that run      *)
(* returned. A lookup that returns none (the command exited non-zero or    *)
(* printed nothing) is no error: the run goes on to the Install branch.    *)
C14_LookupNoneOrIssued ==
  /\ (run = 1 /\ Occurs("Lookup")) => existingId = NoId
  /\ (Occurs("Lookup") /\ ~Occurs("Install")) => existingId = registry[name]
  /\ (Occurs("Lookup") /\ prevOutcome = "Done" /\ prevName = name)
       => existingId = prevResult /\ existingId # NoId
  /\ (LastStep = "Lookup" /\ Count(log, "Lookup") = 1 /\ existingId = NoId)
       => pc = "Preprocess"

C14_Witness ==
  /\ pc = "Upgrade"
  /\ prevOutcome = "Done"
  /\ prevName = name
  /\ existingId = prevResult
  /\ existingId # NoId

(* C15: the install-or-upgrade decision of a run rests on a lookup made in *)
(* that run, after the replica was ensured running: before the lookup the  *)
(* run holds no identifier, and at the decision it holds the one the       *)
(* toolchain has for the run's name, whatever earlier runs returned.       *)
C15_FreshLookupEachRun ==
  /\ pc \in {"Idle", "CheckDfx", "Stage", "StopPrior", "PortProbe",
              "FreePort", "WriteBind", "PingFirst", "Spawn", "Poll",
              "Resolve"} => existingId = NoId
  /\ pc \in {"Upgrade", "Preprocess"} =>
       /\ log = << "Stage", "EnsureReplica", "Lookup" >>
       /\ replica = "Running"
       /\ existingId = registry[name]
       /\ pc = "Upgrade" <=> existingId # NoId

C15_Witness ==
  /\ pc = "Preprocess"
  /\ prevOutcome = "Done"
  /\ prevName # name
  /\ prevResult # NoId
  /\ existingId = NoId

(* C16: whenever the port step of startDfxReplica completes without error  *)
(* (the run goes on to write the bind address) the port is free.           *)
C16_PortFreeAfterPortStep ==
  pc = "WriteBind" => portOwner = "none"

(* C17: when the probe finds the port free, the port step issues no lsof   *)
(* and no kill: the run goes straight on to the bind address, and nothing  *)
(* of the port, the replica or the kill record changes.                    *)
C17_FreePortNoKill ==
  [][ (pc = "PortProbe" /\ portOwner = "none") =>
        /\ pc' = "WriteBind"
        /\ UNCHANGED << portOwner, replica, killed >> ]_vars

C17_Witness ==
  pc = "WriteBind" /\ portOwner = "none" /\ ~killed /\ run = 2

C19_RunningReplicaLeftAlone ==
  [][ (pc = "StopPrior" /\ replica = "Running" /\ portOwner = "replica")
        => replica' = "Running" /\ portOwner' = "replica" ]_vars

(* C20: after the spawn, each probe either succeeds, and startDfxReplica   *)
(* returns with the replica Running, or fails and is counted; a probe is   *)
(* made only while fewer than 24 have failed, and the 24th failure ends    *)
(* the run with an error that carries the output captured from the start   *)
(* process.                                                                *)
C20_PollingCeiling ==
  [][ pc = "Poll" =>
        /\ attempts < 24
        /\ \/ pc' = "Resolve" /\ replica' = "Running"
           \/ pc' = "Poll" /\ attempts' = attempts + 1 /\ attempts' < 24
           \/ /\ pc' = "Failed"
              /\ attempts' = 24
              /\ failedAt' = "EnsureReplica"
              /\ errorText' = startOutput
              /\ errorText' \in StartOutputs ]_vars

C20_Witness ==
  /\ pc = "Failed"
  /\ failedAt = "EnsureReplica"
  /\ attempts = 24
  /\ errorText = "address in use"

(* C21: once a run has begun staging, it reaches Done or Failed: the       *)
(* readiness poll and the code generation attempts are bounded and every   *)
(* other step is taken once.                                               *)
C21_RunTerminates ==
  (pc = "Stage") ~> (pc \in {"Done", "Failed"})

(* A run that used all code generation attempts and still ended.           *)
C21_Witness ==
  /\ pc = "Failed"
  /\ failedAt = "Recover"
  /\ genAttempt = MAX_RETRIES
  /\ Count(log, "CodeGen") = MAX_RETRIES

(* C22: at most one deployment is in flight for a project root. The code   *)
(* takes no lock: a second call can run while the first one is suspended   *)
(* between its registry lookup and its validation.                         *)
InFlight(p) == p \notin {"Idle", "Done", "Failed"}

C22_OneInFlight ==
  ~(InFlight(pc) /\ InFlight(other.pc))

(* C23: staging twice with the same module name and the same source        *)
(* artifact leaves the same files: what Stage leaves depends on its inputs *)
(* only, the staged main.mo is the source artifact and dfx.json is the     *)
(* document generated for the name, whatever was staged before.            *)
C23_StageIdempotent ==
  (pc = "StopPrior") =>
    /\ moFile[name] = srcFile[name]
    /\ dfxJson = [exists |-> TRUE, canisters |-> {name}, bind |-> 4943]

(* The second staging of the same name, over files of an earlier run.      *)
C23_Witness ==
  /\ run = 2
  /\ prevName = name
  /\ prevOutcome = "Done"
  /\ pc = "StopPrior"
  /\ LastStep = "Stage"
  /\ moFile[name] = srcFile[name]

(* C24: from Stage on, dfx.json holds exactly one canister entry, that of  *)
(* the current name, and the fixed bind address, also when an earlier run  *)
(* staged another name in the same project root.                           *)
C24_ConfigRegenerated ==
  (log # << >>) =>
    /\ dfxJson.exists
    /\ dfxJson.canisters = {name}
    /\ dfxJson.bind = 4943

(* A run staged after a run of another name.                               *)
C24_Witness ==
  /\ run = 2
  /\ prevName \in Names \ {name}
  /\ prevOutcome = "Done"
  /\ log # << >>
  /\ dfxJson.canisters = {name}

(* C25: a moc --check leaves the staged files as they are, whether it      *)
(* passes or fails; exit code zero, and only that, counts as passed and    *)
(* leads to the deploy invocation; the diagnostic of the failed first      *)
(* check is kept for the choice of the recovery tier.                      *)
C25_CheckFrame ==
  [][ (pc \in {"Check1", "CheckAfterFix", "CheckSimplified", "CheckRewrite"}) =>
        /\ moFile' = moFile
        /\ srcFile' = srcFile
        /\ dfxJson' = dfxJson
        /\ (lastCheck' = "pass") <=> (pc' = "Install")
        /\ (pc = "Check1" /\ lastCheck' # "pass") => (diag' = lastCheck') ]_vars

(* A failed first check: the diagnostic is kept and the file that is read  *)
(* back is the file that was checked.                                      *)
C25_Witness ==
  /\ LastStep = "Validate"
  /\ lastCheck # "pass"
  /\ diag = lastCheck
  /\ pc \in {"EnvFix", "Rewrite"}
  /\ faulty = moFile[name]
  /\ faulty = preprocessMotokoCode(srcFile[name])

(* C26: the file that is re-validated after the environment fix is the     *)
(* file whose validation failed.                                           *)
C26_EnvFixKeepsArtifact ==
  (pc = "CheckAfterFix") =>
    /\ faulty # NoFile
    /\ moFile[name] = faulty

(* The re-validation after a successful environment fix.                   *)
C26_Witness ==
  /\ pc = "CheckAfterFix"
  /\ envFixed = "fixed"
  /\ LastStep = "ToolchainEnvironmentFix"
  /\ diag = "pkgbase"
  /\ moFile[name] = faulty

C28_NoSwallowedFsError ==
  (pc = "Check1" /\ srcFile[name].uses) => moFile[name].imp

(* C29: a run that failed in dfx deploy made the deploy invocation as its  *)
(* last step, made no identifier lookup after it (the only lookup of the   *)
(* run is the one before), returns no identifier, and its error carries    *)
(* the captured stdout and stderr.                                         *)
C29_InstallFailure ==
  (pc = "Failed" /\ failedAt = "Install") =>
    /\ LastStep = "Install"
    /\ Count(log, "Install") = 1
    /\ Count(log, "Lookup") = 1
    /\ result = NoId
    /\ \E o \in {"", "Deploying all canisters."} :
         \E e \in {"", "Failed while trying to deploy canisters."} :
           errorText = "Output: " \o o \o " Error: " \o e

(* A failed dfx deploy that had written to stdout and to stderr.           *)
C29_Witness ==
  /\ pc = "Failed"
  /\ failedAt = "Install"
  /\ errorText = "Output: Deploying all canisters."
                   \o " Error: Failed while trying to deploy canisters."
  /\ registry[name] = NoId

(* C30, as stated: a run that ends for a missing toolchain fails with a    *)
(* message that tells how to get the toolchain.                            *)
C30_FailedWithRemediation ==
  (pc = "Failed" /\ failedAt = "Toolchain") =>
    errorText \in
      { "DFX installation failed. Please install manually from https://sdk.dfinity.org",
        "DFX installation failed with exit code 1. Please try installing manually.",
        "Unsupported platform. Please install DFX manually." }

(* C30, amended: when dfx is still missing after the check, the prompt and *)
(* the optional installation, the run fails at once: nothing is logged,    *)
(* no file of the project, no registry entry and no replica state changes. *)
(* The message is the install-manually hint, or, when the user declined or *)
(* the installer could not be started, a message with no hint.             *)
C30_AbsentToolchainFailsBeforeStage ==
  [][ (pc = "CheckDfx" /\ ~dfxInstalled') =>
        /\ pc' = "Failed"
        /\ failedAt' = "Toolchain"
        /\ log = << >> /\ log' = << >>
        /\ result' = NoId
        /\ UNCHANGED << srcFile, moFile, dfxJson, dfxDir, registry, nextId,
                        replica, portOwner >>
        /\ errorText' \in
             { "DFX installation failed. Please install manually from https://sdk.dfinity.org",
               "DFX installation failed with exit code 1. Please try installing manually.",
               "Unsupported platform. Please install DFX manually.",
               "DFX installation was cancelled.",
               "Failed to start DFX installation" } ]_vars

(* The user declined the installation in a project root that holds the     *)
(* files of an earlier run.                                                *)
C30_Witness ==
  /\ pc = "Failed"
  /\ failedAt = "Toolchain"
  /\ errorText = "DFX installation was cancelled."
  /\ ~dfxInstalled
  /\ log = << >>

(* C31: of two runs in the same project root whose first failed check     *)
(* gave the same diagnostic, one attempted a prefix of the tiers of the    *)
(* other, whatever the first run left in the project root: the outcomes of *)
(* the later external calls only decide where the sequence stops. And two  *)
(* runs that ended the same way after the same diagnostic, the same        *)
(* outcome of the environment fix, the same number of checks with the same *)
(* last outcome and the same number of code generation calls attempted the *)
(* same tiers in the same order.                                           *)
C31_SameInputsSameTiers ==
  /\ (other.pc # "Idle" /\ other.diag = diag) =>
        \/ IsPrefix(SelectSeq(other.log, IsTier), SelectSeq(log, IsTier))
        \/ IsPrefix(SelectSeq(log, IsTier), SelectSeq(other.log, IsTier))
  /\ ( /\ pc \in {"Done", "Failed"}
       /\ other.pc = pc
       /\ other.failedAt = failedAt
       /\ other.diag = diag
       /\ other.envFixed = envFixed
       /\ other.lastCheck = lastCheck
       /\ other.genAttempt = genAttempt
       /\ Count(other.log, "Validate") = Count(log, "Validate") )
     => SelectSeq(other.log, IsTier) = SelectSeq(log, IsTier)

(* Two runs that both went through the environment fix, the simplification *)
(* and the minimal canister, the second in the project root the first      *)
(* left.                                                                   *)
C31_Witness ==
  /\ pc = "Done"
  /\ other.pc = "Done"
  /\ diag = "pkgbase"
  /\ other.diag = "pkgbase"
  /\ other.envFixed = envFixed
  /\ Len(Tiers) = 4
  /\ SelectSeq(other.log, IsTier) = Tiers
  /\ prevName # name

(* C32: when dfx deploy is about to be invoked, main.mo is either a file   *)
(* whose latest check passed, with no write since, or the minimal canister *)
(* written right before; a file whose latest check failed is not deployed. *)
C32_InstallOnlyCheckedOrMinimal ==
  (pc = "Install") =>
    \/ (lastCheck = "pass" /\ LastStep = "Validate")
    \/ /\ LastStep = "MinimalFallbackArtifact"
       /\ moFile[name] = [kind |-> "minimal", uses |-> TRUE, imp |-> FALSE]

(* The minimal canister about to be deployed after a failed re-check.      *)
C32_Witness ==
  /\ pc = "Install"
  /\ lastCheck \in Diagnostics
  /\ LastStep = "MinimalFallbackArtifact"
  /\ Count(log, "Validate") = 3

(* C33: no step of a run writes the caller's source file: ImportRepair and *)
(* the recovery tiers write main.mo only, and each Stage copies the source *)
(* file as the caller left it.                                             *)
C33_SourceNeverWritten ==
  [][ /\ (pc # "Idle") => (srcFile' = srcFile)
      /\ (pc = "Stage" /\ pc' = "StopPrior") => (moFile'[name] = srcFile[name]) ]_vars

(* A second run of the same name stages the unrepaired source again after  *)
(* a run that deployed a repaired or replaced copy.                        *)
C33_Witness ==
  /\ run = 2
  /\ prevName = name
  /\ prevOutcome = "Done"
  /\ pc = "StopPrior"
  /\ srcFile[name].uses /\ ~srcFile[name].imp
  /\ moFile[name] = srcFile[name]

(* C34: a run that ends in Done returns an identifier, on the Install      *)
(* branch and on the Upgrade branch. The code returns the trimmed output   *)
(* of dfx canister id after the install as it is, also when it is empty.   *)
C34_ReturnedIdentifierNonEmpty ==
  (pc = "Done") => (result # NoId)

C36_FallbackAfterRetries ==
  (LastStep = "CodeGen" /\ genAttempt = MAX_RETRIES /\ genResult = NoFile)
    => (pc # "Failed")

(* C37: a response holding the key canisterCode only, as the rewrite       *)
(* prompt asks for, is accepted and its code goes on to be written. The    *)
(* code rejects it: validateResponseStructure wants all three keys.        *)
C37_OnlyCodeAccepted ==
  (LastStep = "CodeGen") =>
    /\ pc \notin {"GenAttempt", "Failed"}
    /\ genResult # NoFile

(* C38: the start of the replica wipes the replica state only when the     *)
(* project root has no .dfx directory, and then no identifier is           *)
(* registered yet; with a .dfx directory the start keeps the state. So an  *)
(* identifier once registered stays registered, unchanged, through every   *)
(* later stop and start.                                                   *)
C38_CleanOnlyWithoutState ==
  [][ /\ (pc = "Spawn" /\ dfxDir) => (registry' = registry)
      /\ (pc = "Spawn" /\ ~dfxDir) =>
           (registry = [n \in Names |-> NoId] /\ registry' = registry)
      /\ \A n \in Names :
           (registry[n] # NoId) => (registry'[n] = registry[n]) ]_vars

(* The replica has just been started again in a project root where an      *)
(* earlier run installed a canister: the identifier is still there.        *)
C38_Witness ==
  /\ run = 2
  /\ pc = "Poll"
  /\ dfxDir
  /\ prevOutcome = "Done"
  /\ prevResult # NoId
  /\ registry[prevName] = prevResult



(* C39: in one run of the convert command, the generated canister source   *)
(* has been written to the project when deployCanister is called,          *)
(* deployCanister is called at most once, a client file is edited only     *)
(* after deployCanister returned an identifier, and when no selected file  *)
(* has a function declaration neither the code generation nor              *)
(* deployCanister is invoked.                                              *)
C39_ConvertOrder ==
  /\ (cmd.deployCalls > 0) =>
        /\ cmd.written
        /\ cmd.canisterCode # NoFile
        /\ srcFile[CANISTER_NAME] = cmd.canisterCode
  /\ cmd.deployCalls <= 1
  /\ (cmd.edited # {}) => (cmd.returned /\ cmd.canisterId # NoId)
  /\ (cmd.pc # "Idle" /\ \A f \in cmd.selected : ~f.declares) =>
        (cmd.generations = 0 /\ cmd.deployCalls = 0)


============================================================================
